---- MODULE Spec2Model ----
(***************************************************************************)
(* A model of generate_rss_feed.py: the one-shot pipeline                  *)
(*   main -> fetch_page_content -> extract_model_updates_with_llm          *)
(*        -> generate_rss_feed                                             *)
(* Three specifications share the variables:                               *)
(*   Spec      the run of main()                                           *)
(*   SpecFeed  generate_rss_feed called directly with a list of records    *)
(*             (as test_generate_rss_feed does)                            *)
(*   SpecFetch fetch_page_content's reduction of one parsed HTML document  *)
(*                                                                         *)
(* Representation.                                                         *)
(*  - A Python str is the sequence of its lines (str.split('\n')), so that *)
(*    the line filter of generate_rss_feed acts on it as in the code.      *)
(*    Field values hold none of the characters XML escapes.                *)
(*  - A JSON value is [type, val]; an object's val is a function from its  *)
(*    keys to field values.                                                *)
(*  - The output file is the sequence of its physical lines, or NoFile.    *)
(***************************************************************************)
EXTENDS Integers, Sequences, FiniteSets, TLC

VARIABLES
    pc,           \* position of the running function
    env,          \* os.environ: AZURE_OPENAI_API_KEY, AZURE_OPENAI_ENDPOINT
    log,          \* the outward calls issued so far, in order
    result_text,  \* response.choices[0].message.content, as a token sequence
    models,       \* the value bound to `models`
    extracted,    \* history: what extract_model_updates_with_llm returned
    exc,          \* the exception in flight ("" when none)
    exit_code,    \* the process's exit status (-1 while running)
    now,          \* the UTC clock, in seconds after the run's start
    channel,      \* the element tree under construction
    idx,          \* position of the for loop over models
    xml_lines,    \* xml_lines / xml_str of generate_rss_feed
    file,         \* content of output_file on disk
    file0,        \* content of output_file when the run began
    doc,          \* the parsed HTML document (soup)
    alive,        \* the nodes of doc not yet decomposed
    region,       \* main_content: a node of doc, or 0 for None
    relevant_content  \* relevant_content of fetch_page_content

vars == <<pc, env, log, result_text, models, extracted, exc, exit_code, now, channel,
          idx, xml_lines, file, file0, doc, alive, region, relevant_content>>

feedVars == <<now, channel, idx, xml_lines, file>>
fetchVars == <<doc, alive, region, relevant_content>>

(* ------------------------------ bounds --------------------------------- *)

MaxItems == 2
MaxClock == 1
MaxReplyLen == 3
MaxNodes == 3

(* ------------------------------ strings -------------------------------- *)

\* A one-line str.
T(s) == <<s>>

BaseLink == "https://learn.microsoft.com/en-us/azure/ai-foundry/foundry-models/concepts/models-sold-directly-by-azure"

Url == "https://learn.microsoft.com/en-us/azure/ai-foundry/foundry-models/concepts/models-sold-directly-by-azure?view=foundry&preserve-view=true&tabs=global-standard-aoai%2Cglobal-standard&pivots=azure-openai"

\* datetime.now(timezone.utc).strftime('%a, %d %b %Y %H:%M:%S +0000'), for a
\* clock reading of t seconds after 12:00:00 on the day of the run.
Strftime(t) == "Thu, 05 Nov 2026 12:00:0" \o ToString(t) \o " +0000"

\* hashlib.sha256(title.encode()).hexdigest()[:32], tabulated on the titles
\* of the model.
Sha256Hex32(title) ==
    CASE title = T("") -> "e3b0c44298fc1c149afbf4c8996fb924"
      [] title = T("Unknown Model") -> "3abcd81da4349c95d9ab8a33e9ca9409"
      [] title = T("GPT-4") -> "29f11dbc633f60efe5dc93797328f13d"
      [] title = T("No updates available") -> "60078d9c6a45518ba51152a8fe36d81d"

\* str.strip() == '' on the one-line strings of the model.
IsBlank(s) == s \in {"", " ", "  "}

(* ---------------------------- JSON values ------------------------------ *)

Keys == {"title", "description", "link", "pubDate"}

J(type, val) == [type |-> type, val |-> val]

IsDict(x) == x.type = "object"

NotReturned == J("none", 0)

\* dict.get(key, default)
Get(d, key, default) == IF key \in DOMAIN d THEN d[key] ELSE default

\* len(x) of a value len() accepts
PyLen(x) ==
    CASE x.type = "array" -> Len(x.val)
      [] x.type = "object" -> Cardinality(DOMAIN x.val)
      [] x.type = "string" -> Len(x.val)

HasLen(x) == x.type \in {"array", "object", "string"}

\* Python's truth value
Truthy(x) ==
    CASE x.type \in {"array", "object", "string"} -> PyLen(x) > 0
      [] x.type = "number" -> x.val # 0
      [] x.type = "null" -> FALSE

RECURSIVE SetToSeq(_)
SetToSeq(S) ==
    IF S = {} THEN <<>>
    ELSE LET x == CHOOSE y \in S : TRUE IN <<x>> \o SetToSeq(S \ {x})

\* `for model_info in models`: the elements of a list, the keys of a dict,
\* the characters of a str.
Iter(x) ==
    CASE x.type = "array" -> x.val
      [] x.type = "object" -> [i \in 1..Cardinality(DOMAIN x.val) |->
                                 J("string", SetToSeq(DOMAIN x.val)[i])]
      [] x.type = "string" -> [i \in 1..Len(x.val) |-> J("string", x.val[i])]

(* --------------------------- element trees ----------------------------- *)

El(tag, attrs, text) == [tag |-> tag, attrs |-> attrs, text |-> text]

NoChannel == [meta |-> <<>>, items |-> <<>>]

\* Lines 161-178: the rss and channel elements and the channel metadata.
ChannelMeta(t) ==
    << El("title", "", T("Azure AI Foundry Model Updates")),
       El("link", "", T(BaseLink)),
       El("description", "", T("Latest updates on Azure AI Foundry models sold directly by Azure")),
       El("language", "", T("en-us")),
       El("lastBuildDate", "", T(Strftime(t))) >>

\* The text of the channel's link element (link.text)
ChannelLink(ch) == ch.meta[2].text

\* Lines 199-202: the guid text of a record
GuidText(model_info) ==
    "azure-foundry-model-" \o Sha256Hex32(Get(model_info, "title", T("")))

\* Lines 182-202: the item element of one record, built at clock reading t.
ItemOf(model_info, ch, t) ==
    << El("title", "", Get(model_info, "title", T("Unknown Model"))),
       El("link", "", Get(model_info, "link", ChannelLink(ch))),
       El("description", "", Get(model_info, "description", T(""))),
       El("pubDate", "", IF "pubDate" \in DOMAIN model_info
                           THEN model_info["pubDate"] ELSE T(Strftime(t))),
       El("guid", "isPermaLink=\"false\"", T(GuidText(model_info))) >>

\* Faulty variant of AppendItem: the item is put before the others.
AppendItem_Prepend(ch, item) == [ch EXCEPT !.items = <<item>> \o @]

\* SubElement(channel, 'item')
AppendItem(ch, item) == [ch EXCEPT !.items = Append(@, item)]

(* ------------------------- XML serialisation --------------------------- *)

\* One physical line of the pretty-printed document.
\*   decl       <?xml version="1.0" ?>
\*   open       <tag attrs>            close      </tag>
\*   empty      <tag attrs/>           leaf       <tag attrs>text</tag>
\*   leafopen   <tag attrs>text        text       text
\*   leafclose  text</tag>
Line(k, ind, tag, attrs, text) ==
    [k |-> k, ind |-> ind, tag |-> tag, attrs |-> attrs, text |-> text]

\* An element holding only text, as minidom's writexml prints it: the text
\* inline, a text of several lines over several physical lines.
LeafLines(e, ind) ==
    IF e.text = T("") THEN << Line("empty", ind, e.tag, e.attrs, "") >>
    ELSE IF Len(e.text) = 1
    THEN << Line("leaf", ind, e.tag, e.attrs, e.text[1]) >>
    ELSE << Line("leafopen", ind, e.tag, e.attrs, e.text[1]) >>
         \o [i \in 1..(Len(e.text) - 2) |-> Line("text", 0, "", "", e.text[i + 1])]
         \o << Line("leafclose", 0, e.tag, "", e.text[Len(e.text)]) >>

RECURSIVE LeavesLines(_, _)
LeavesLines(es, ind) ==
    IF es = <<>> THEN <<>>
    ELSE LeafLines(Head(es), ind) \o LeavesLines(Tail(es), ind)

RECURSIVE ItemsLines(_)
ItemsLines(items) ==
    IF items = <<>> THEN <<>>
    ELSE << Line("open", 4, "item", "", "") >>
         \o LeavesLines(Head(items), 6)
         \o << Line("close", 4, "item", "", "") >>
         \o ItemsLines(Tail(items))

\* Line 205: minidom.parseString(tostring(rss)).toprettyxml(indent="  "),
\* split at '\n' (the string ends with a newline: the last piece is '').
ToPrettyXml(ch) ==
    << Line("decl", 0, "", "", ""),
       Line("open", 0, "rss", "version=\"2.0\"", ""),
       Line("open", 2, "channel", "", "") >>
    \o LeavesLines(ch.meta, 4)
    \o ItemsLines(ch.items)
    \o << Line("close", 2, "channel", "", ""),
          Line("close", 0, "rss", "", ""),
          Line("text", 0, "", "", "") >>

\* line.strip() of a physical line is empty
BlankLine(l) == l.k = "text" /\ IsBlank(l.text)

\* Lines 208-209: [line for line in xml_str.split('\n') if line.strip()]
RemoveBlankLines(lines) == SelectSeq(lines, LAMBDA l : ~BlankLine(l))

\* Lines 204-209
XmlStr(ch) == RemoveBlankLines(ToPrettyXml(ch))

(* ------------------------ reading a feed back -------------------------- *)

\* ET.parse(temp_file) of the test: the document a file's lines hold, or
\* ok = FALSE when they are no well-formed document. st.pend holds the text
\* element whose closing tag has not been read yet.
ParseStart ==
    [ok |-> TRUE, n |-> 0, path |-> <<>>, roots |-> 0, channels |-> 0,
     chan |-> <<>>, items |-> <<>>, pend |-> <<>>]

ParseAdd(st, e) ==
    IF st.path = <<"rss", "channel", "item">>
    THEN [st EXCEPT !.items[Len(st.items)] = Append(@, e)]
    ELSE IF st.path = <<"rss", "channel">>
    THEN [st EXCEPT !.chan = Append(@, e)]
    ELSE [st EXCEPT !.ok = FALSE]

ParseLine(st0, l) ==
    LET st == [st0 EXCEPT !.n = @ + 1] IN
    IF ~st.ok THEN st
    ELSE IF st.pend # <<>>
    THEN \* inside a text element: everything up to its closing tag is text
         IF l.k = "text"
         THEN [st EXCEPT !.pend[1].text = Append(@, l.text)]
         ELSE IF l.k = "leafclose" /\ l.tag = st.pend[1].tag
         THEN ParseAdd([st EXCEPT !.pend = <<>>],
                       [st.pend[1] EXCEPT !.text = Append(@, l.text)])
         ELSE [st EXCEPT !.ok = FALSE]
    ELSE CASE l.k = "decl" -> [st EXCEPT !.ok = (st0.n = 0)]
           [] l.k = "open" ->
                IF st.path = <<>>
                THEN [st EXCEPT !.ok = (st.roots = 0), !.roots = @ + 1,
                                !.path = <<l.tag>>]
                ELSE IF l.tag = "channel" /\ st.path = <<"rss">>
                THEN [st EXCEPT !.channels = @ + 1, !.path = Append(@, l.tag)]
                ELSE IF l.tag = "item" /\ st.path = <<"rss", "channel">>
                THEN [st EXCEPT !.items = Append(@, <<>>), !.path = Append(@, l.tag)]
                ELSE [st EXCEPT !.ok = FALSE]
           [] l.k = "close" ->
                IF st.path # <<>> /\ st.path[Len(st.path)] = l.tag
                THEN [st EXCEPT !.path = SubSeq(@, 1, Len(@) - 1)]
                ELSE [st EXCEPT !.ok = FALSE]
           [] l.k = "empty" -> ParseAdd(st, El(l.tag, l.attrs, T("")))
           [] l.k = "leaf" -> ParseAdd(st, El(l.tag, l.attrs, T(l.text)))
           [] l.k = "leafopen" -> [st EXCEPT !.pend = <<El(l.tag, l.attrs, T(l.text))>>]
           [] l.k = "text" -> [st EXCEPT !.ok = IsBlank(l.text)]
           [] l.k = "leafclose" -> [st EXCEPT !.ok = FALSE]

RECURSIVE ParseLines(_, _)
ParseLines(st, lines) ==
    IF lines = <<>> THEN st
    ELSE ParseLines(ParseLine(st, Head(lines)), Tail(lines))

ReadFeed(f) ==
    LET st == ParseLines(ParseStart, f.lines) IN
    [ok |-> f.exists /\ st.ok /\ st.path = <<>> /\ st.pend = <<>> /\ st.roots = 1,
     channels |-> st.channels, chan |-> st.chan, items |-> st.items]

(* ------------------------------ the file ------------------------------- *)

NoFile == [exists |-> FALSE, lines |-> <<>>]

FileOf(lines) == [exists |-> TRUE, lines |-> lines]

\* A feed an earlier run left in output_file.
PrevFeed ==
    FileOf(XmlStr(AppendItem([meta |-> ChannelMeta(0), items |-> <<>>],
                             ItemOf([title |-> T("GPT-4")],
                                    [meta |-> ChannelMeta(0), items |-> <<>>], 0))))

\* How many lines of the document reach the disk when f.write fails.
TruncationPoints(lines) == {0, 1, Len(lines) \div 2, Len(lines) - 1}

(* --------------------------- generate_rss_feed ------------------------- *)

Raise(e) == exc' = e /\ pc' = "raised"

\* Lines 158-178: the channel and its metadata; lastBuildDate reads the clock.
GenChannel ==
    /\ pc = "gen_channel"
    /\ \E t \in now..MaxClock :
          /\ now' = t
          /\ channel' = [meta |-> ChannelMeta(t), items |-> <<>>]
    /\ idx' = 1
    /\ pc' = "gen_items"
    /\ UNCHANGED <<env, log, result_text, models, extracted, exc, exit_code, xml_lines,
                   file, file0>>
    /\ UNCHANGED fetchVars

\* Lines 181-202: one iteration of `for model_info in models`. An element
\* that is no dict has no .get: AttributeError at line 185, after the item
\* and its title element were created.
GenItem ==
    /\ pc = "gen_items"
    /\ idx <= Len(Iter(models))
    /\ LET model_info == Iter(models)[idx] IN
         IF IsDict(model_info)
         THEN /\ \E t \in (IF "pubDate" \in DOMAIN model_info.val
                           THEN {now} ELSE now..MaxClock) :
                    /\ now' = t
                    /\ channel' = AppendItem(channel, ItemOf(model_info.val, channel, t))
              /\ idx' = idx + 1
              /\ UNCHANGED <<pc, exc>>
         ELSE /\ channel' = AppendItem(channel, <<El("title", "", T(""))>>)
              /\ Raise("AttributeError")
              /\ UNCHANGED <<now, idx>>
    /\ UNCHANGED <<env, log, result_text, models, extracted, exit_code, xml_lines, file, file0>>
    /\ UNCHANGED fetchVars

\* Lines 204-209: the loop is over; the document is serialised in memory.
GenSerialize ==
    /\ pc = "gen_items"
    /\ idx > Len(Iter(models))
    /\ xml_lines' = XmlStr(channel)
    /\ pc' = "gen_open"
    /\ UNCHANGED <<env, log, result_text, models, extracted, exc, exit_code, now, channel,
                   idx, file, file0>>
    /\ UNCHANGED fetchVars

\* Line 212: open(output_file, 'w') creates the file or truncates it.
GenOpen ==
    /\ pc = "gen_open"
    /\ file' = FileOf(<<>>)
    /\ log' = Append(log, "open")
    /\ pc' = "gen_write"
    /\ UNCHANGED <<env, result_text, models, extracted, exc, exit_code, now, channel, idx,
                   xml_lines, file0>>
    /\ UNCHANGED fetchVars

\* Line 212: open fails (no permission, no such directory): OSError.
GenOpenFail ==
    /\ pc = "gen_open"
    /\ log' = Append(log, "open")
    /\ Raise("OSError")
    /\ UNCHANGED <<env, result_text, models, extracted, exit_code, now, channel, idx,
                   xml_lines, file, file0>>
    /\ UNCHANGED fetchVars

\* Lines 212-213: f.write(xml_str) and the close at the end of the with.
GenWrite ==
    /\ pc = "gen_write"
    /\ file' = FileOf(xml_lines)
    /\ log' = Append(log, "write")
    /\ pc' = "gen_done"
    /\ UNCHANGED <<env, result_text, models, extracted, exc, exit_code, now, channel, idx,
                   xml_lines, file0>>
    /\ UNCHANGED fetchVars

\* Lines 212-213: the write or the flush at close fails (disk full, I/O
\* error): part of the document may have reached the disk; OSError.
GenWriteFail ==
    /\ pc = "gen_write"
    /\ \E k \in TruncationPoints(xml_lines) : file' = FileOf(SubSeq(xml_lines, 1, k))
    /\ log' = Append(log, "write")
    /\ Raise("OSError")
    /\ UNCHANGED <<env, result_text, models, extracted, exit_code, now, channel, idx,
                   xml_lines, file0>>
    /\ UNCHANGED fetchVars

GenerateRssFeed ==
    \/ GenChannel
    \/ GenItem
    \/ GenSerialize
    \/ GenOpen
    \/ GenOpenFail
    \/ GenWrite
    \/ GenWriteFail

(* ------------------- generate_rss_feed called directly ----------------- *)

TitleValues == {T(""), T("Unknown Model")}
LinkValues == {T("https://example.com/gpt4")}
DescriptionValues == {<<"a", "", "b">>}
PubDateValues == {T("Mon, 01 Jan 2024 00:00:00 +0000")}

FieldValues(key) ==
    CASE key = "title" -> TitleValues
      [] key = "link" -> LinkValues
      [] key = "description" -> DescriptionValues
      [] key = "pubDate" -> PubDateValues

\* The records: mappings with any subset of the four keys.
Records ==
    UNION { { r \in [ks -> UNION {FieldValues(k) : k \in Keys}] :
                \A k \in ks : r[k] \in FieldValues(k) } : ks \in SUBSET Keys }

RecordLists == UNION { [1..n -> {J("object", r) : r \in Records}] : n \in 0..MaxItems }

NoDoc == <<>>

InitIdle ==
    /\ env = [api_key |-> [set |-> FALSE, val |-> ""], endpoint |-> [set |-> FALSE, val |-> ""]]
    /\ log = <<>>
    /\ result_text = <<>>
    /\ extracted = NotReturned
    /\ exc = ""
    /\ exit_code = -1
    /\ now = 0
    /\ channel = NoChannel
    /\ idx = 0
    /\ xml_lines = <<>>
    /\ doc = NoDoc
    /\ alive = {}
    /\ region = 0
    /\ relevant_content = <<>>

InitFeed ==
    /\ InitIdle
    /\ pc = "gen_channel"
    /\ models \in {J("array", l) : l \in RecordLists}
    /\ file \in {NoFile, PrevFeed}
    /\ file0 = file

NextFeed == GenerateRssFeed

SpecFeed == InitFeed /\ [][NextFeed]_vars

(* --------------------- extract_model_updates_with_llm ------------------ *)

\* The reply is a sequence of tokens: the two fences (<fence> stands for the
\* three backquotes of a Markdown code fence), white space, prose and JSON
\* texts. No two tokens that are not white space concatenate to a JSON
\* text, except digits to a longer number.
FenceJson == "<fence>json"
Fence == "<fence>"
Newline == "\n"
Prose == "Here is the JSON:"

JsonTexts ==
    { "[]", "[{\"title\": \"GPT-4\"}, {}]", "{\"title\": \"GPT-4\"}", "{}",
      "5", "null", "\"GPT\"", "[5]" }

ReplyTokens == {FenceJson, Fence, Newline, Prose} \cup JsonTexts

Replies == UNION { [1..n -> ReplyTokens] : n \in 0..MaxReplyLen }

\* `sep in text`, sep one of the two fences: the json fence holds the fence.
Contains(text, sep) ==
    \E i \in 1..Len(text) : text[i] = sep \/ (sep = Fence /\ text[i] = FenceJson)

\* text.split(sep), sep one of the two fences. Splitting the json fence at
\* the fence leaves "json" at the head of the next piece.
RECURSIVE Split(_, _)
Split(text, sep) ==
    IF ~Contains(text, sep) THEN <<text>>
    ELSE LET i == CHOOSE j \in 1..Len(text) :
                     /\ Contains(<<text[j]>>, sep)
                     /\ ~Contains(SubSeq(text, 1, j - 1), sep)
             rest == SubSeq(text, i + 1, Len(text))
         IN <<SubSeq(text, 1, i - 1)>>
            \o Split(IF text[i] = sep THEN rest ELSE <<"json">> \o rest, sep)

\* Lines 142-145
FenceStripped(text) ==
    IF Contains(text, FenceJson) THEN Split(Split(text, FenceJson)[2], Fence)[1]
    ELSE IF Contains(text, Fence) THEN Split(Split(text, Fence)[2], Fence)[1]
    ELSE text

RECURSIVE Strip(_)
Strip(text) ==
    IF text = <<>> THEN text
    ELSE IF Head(text) = Newline THEN Strip(Tail(text))
    ELSE IF text[Len(text)] = Newline THEN Strip(SubSeq(text, 1, Len(text) - 1))
    ELSE text

\* The value of a JSON text
JsonValue(tok) ==
    CASE tok = "[]" -> J("array", <<>>)
      [] tok = "[{\"title\": \"GPT-4\"}, {}]" ->
            J("array", << J("object", [title |-> T("GPT-4")]), J("object", <<>>) >>)
      [] tok = "{\"title\": \"GPT-4\"}" -> J("object", [title |-> T("GPT-4")])
      [] tok = "{}" -> J("object", <<>>)
      [] tok = "5" -> J("number", 5)
      [] tok = "null" -> J("null", 0)
      [] tok = "\"GPT\"" -> J("string", <<"G", "P", "T">>)
      [] tok = "[5]" -> J("array", << J("number", 5) >>)

RECURSIVE Decimal(_)
Decimal(digits) ==
    IF digits = <<>> THEN 0
    ELSE 10 * Decimal(SubSeq(digits, 1, Len(digits) - 1)) + 5

\* json.loads(text): [ok |-> FALSE] stands for JSONDecodeError.
JsonLoads(text) ==
    IF Len(text) = 1 /\ text[1] \in JsonTexts
    THEN [ok |-> TRUE, val |-> JsonValue(text[1])]
    ELSE IF text # <<>> /\ \A i \in 1..Len(text) : text[i] = "5"
    THEN [ok |-> TRUE, val |-> J("number", Decimal(text))]
    ELSE [ok |-> FALSE, val |-> J("null", 0)]

EmptyList == J("array", <<>>)

\* `return v` of extract_model_updates_with_llm, to line 238 of main
Return(v) ==
    /\ models' = v
    /\ extracted' = v
    /\ pc' = "extract_return"
    /\ UNCHANGED exc

\* Faulty variant of ParseReply: no except clause, the JSONDecodeError propagates.
ParseReply_NoExcept ==
    /\ pc = "parse"
    /\ LET parsed == JsonLoads(Strip(FenceStripped(result_text))) IN
         IF ~parsed.ok
         THEN Raise("JSONDecodeError") /\ UNCHANGED <<models, extracted>>
         ELSE IF HasLen(parsed.val)
         THEN Return(parsed.val)
         ELSE Raise("TypeError") /\ UNCHANGED <<models, extracted>>
    /\ UNCHANGED <<env, log, result_text, exit_code, file0>>
    /\ UNCHANGED feedVars
    /\ UNCHANGED fetchVars

\* Lines 139-153: the try block and its except clause. len(models) in the
\* print of line 148 raises TypeError on a number or None, which the except
\* clause does not catch.
ParseReply ==
    /\ pc = "parse"
    /\ LET parsed == JsonLoads(Strip(FenceStripped(result_text))) IN
         IF ~parsed.ok
         THEN Return(EmptyList)
         ELSE IF HasLen(parsed.val)
         THEN Return(parsed.val)
         ELSE Raise("TypeError") /\ UNCHANGED <<models, extracted>>
    /\ UNCHANGED <<env, log, result_text, exit_code, file0>>
    /\ UNCHANGED feedVars
    /\ UNCHANGED fetchVars

\* Lines 91-137: the one chat completion request; it returns a reply.
LlmOk ==
    /\ pc = "llm"
    /\ log' = Append(log, "llm")
    /\ result_text' \in Replies
    /\ pc' = "parse"
    /\ UNCHANGED <<env, models, extracted, exc, exit_code, file0>>
    /\ UNCHANGED feedVars
    /\ UNCHANGED fetchVars

\* Line 127: the request fails (timeout, authentication, status, transport).
LlmFail ==
    /\ pc = "llm"
    /\ log' = Append(log, "llm")
    /\ Raise("APIError")
    /\ UNCHANGED <<env, result_text, models, extracted, exit_code, file0>>
    /\ UNCHANGED feedVars
    /\ UNCHANGED fetchVars

(* --------------------------------- main -------------------------------- *)

Unset == [set |-> FALSE, val |-> ""]
SetTo(v) == [set |-> TRUE, val |-> v]

\* Python's `not x` of os.environ.get(...): None or the empty string
Not(x) == ~x.set \/ x.val = ""

EnvValues == {Unset, SetTo(""), SetTo("value")}

\* Lines 242-247
Placeholder(t) ==
    J("object", [title |-> T("No updates available"),
                 description |-> T("Failed to extract model information from the page."),
                 link |-> T(Url),
                 pubDate |-> T(Strftime(t))])

\* Faulty variant of MainConfig: only the key is checked.
MainConfig_KeyOnly ==
    /\ pc = "main"
    /\ IF Not(env.api_key)
       THEN exit_code' = 1 /\ pc' = "exited"
       ELSE pc' = "fetch" /\ UNCHANGED exit_code
    /\ UNCHANGED <<env, log, result_text, models, extracted, exc, file0>>
    /\ UNCHANGED feedVars
    /\ UNCHANGED fetchVars

\* Lines 225-231
MainConfig ==
    /\ pc = "main"
    /\ IF Not(env.api_key) \/ Not(env.endpoint)
       THEN exit_code' = 1 /\ pc' = "exited"
       ELSE pc' = "fetch" /\ UNCHANGED exit_code
    /\ UNCHANGED <<env, log, result_text, models, extracted, exc, file0>>
    /\ UNCHANGED feedVars
    /\ UNCHANGED fetchVars

\* Lines 235, 24-84: the page is fetched and reduced to its content.
FetchOk ==
    /\ pc = "fetch"
    /\ log' = Append(log, "fetch")
    /\ pc' = "llm"
    /\ UNCHANGED <<env, result_text, models, extracted, exc, exit_code, file0>>
    /\ UNCHANGED feedVars
    /\ UNCHANGED fetchVars

\* Lines 24-25: requests.get raises, or raise_for_status does.
FetchFail ==
    /\ pc = "fetch"
    /\ log' = Append(log, "fetch")
    /\ Raise("RequestException")
    /\ UNCHANGED <<env, result_text, models, extracted, exit_code, file0>>
    /\ UNCHANGED feedVars
    /\ UNCHANGED fetchVars

\* Faulty variant of MainCheckModels: no placeholder is substituted.
MainCheckModels_NoPlaceholder ==
    /\ pc = "extract_return"
    /\ result_text' = <<>>
    /\ pc' = "gen_channel"
    /\ UNCHANGED <<env, log, models, extracted, exc, exit_code, now, channel, idx,
                   xml_lines, file, file0>>
    /\ UNCHANGED fetchVars

\* Lines 238-250: the extractor's frame is gone; the placeholder record, then
\* the call of generate_rss_feed.
MainCheckModels ==
    /\ pc = "extract_return"
    /\ result_text' = <<>>
    /\ IF ~Truthy(models)
       THEN \E t \in now..MaxClock :
               /\ now' = t
               /\ models' = J("array", <<Placeholder(t)>>)
       ELSE UNCHANGED <<now, models>>
    /\ pc' = "gen_channel"
    /\ UNCHANGED <<env, log, extracted, exc, exit_code, channel, idx,
                   xml_lines, file, file0>>
    /\ UNCHANGED fetchVars

\* Line 252 and the return of main: exit status 0.
MainDone ==
    /\ pc = "gen_done"
    /\ exit_code' = 0
    /\ pc' = "exited"
    /\ UNCHANGED <<env, log, result_text, models, extracted, exc, file0>>
    /\ UNCHANGED feedVars
    /\ UNCHANGED fetchVars

\* Faulty variant of MainExcept: the run is started again from the fetch.
MainExcept_Retry ==
    /\ pc = "raised"
    /\ exc' = ""
    /\ pc' = "fetch"
    /\ UNCHANGED <<env, log, result_text, models, extracted, exit_code, file0>>
    /\ UNCHANGED feedVars
    /\ UNCHANGED fetchVars

\* Lines 254-258: except Exception: ... sys.exit(1)
MainExcept ==
    /\ pc = "raised"
    /\ exit_code' = 1
    /\ pc' = "exited"
    /\ UNCHANGED <<env, log, result_text, models, extracted, exc, file0>>
    /\ UNCHANGED feedVars
    /\ UNCHANGED fetchVars

Init ==
    /\ pc = "main"
    /\ env \in [api_key : EnvValues, endpoint : EnvValues]
    /\ log = <<>>
    /\ result_text = <<>>
    /\ models = EmptyList
    /\ extracted = NotReturned
    /\ exc = ""
    /\ exit_code = -1
    /\ now = 0
    /\ channel = NoChannel
    /\ idx = 0
    /\ xml_lines = <<>>
    /\ file \in {NoFile, PrevFeed}
    /\ file0 = file
    /\ doc = NoDoc
    /\ alive = {}
    /\ region = 0
    /\ relevant_content = <<>>

Next ==
    \/ MainConfig
    \/ FetchOk
    \/ FetchFail
    \/ LlmOk
    \/ LlmFail
    \/ ParseReply
    \/ MainCheckModels
    \/ GenerateRssFeed
    \/ MainDone
    \/ MainExcept

Spec == Init /\ [][Next]_vars

(* --------------------------- fetch_page_content ------------------------ *)

\* The parsed document is the sequence of its elements in document order;
\* element i has the parent doc[i].parent (0 is the BeautifulSoup object) and
\* one string of its own, its first child, which the number i stands for.
NonContentTags == {"script", "style", "nav", "header", "footer", "aside"}
HeadingTags == {"h1", "h2", "h3", "h4"}
BlockTags == {"p", "ul", "ol", "table", "div"}

Node(tag, id, parent) == [tag |-> tag, id |-> id, parent |-> parent]

\* The elements the documents of the model are made of.
NodeKinds ==
    { <<"main", "">>, <<"article", "">>, <<"div", "main-content">>,
      <<"nav", "">>, <<"h2", "">>, <<"p", "">>, <<"table", "">>,
      <<"th", "">>, <<"tr", "">>, <<"td", "">> }

RECURSIVE Ancestors(_, _)
Ancestors(d, i) ==
    IF i = 0 THEN {}
    ELSE {d[i].parent} \cup Ancestors(d, d[i].parent)

\* Where the parser may attach the next element: under any element still open.
OpenElements(d) ==
    IF d = <<>> THEN {0} ELSE {Len(d)} \cup Ancestors(d, Len(d))

\* tag.find_all([names]): the descendants of r that are still in the tree
\* and bear one of the names, in document order.
FindAll(d, al, r, names) ==
    SelectSeq([i \in 1..Len(d) |-> i],
              LAMBDA i : i \in al /\ r \in Ancestors(d, i) /\ d[i].tag \in names)

\* tag.find(name): the first of them, or 0 for None.
Find(d, al, r, name) ==
    LET found == FindAll(d, al, r, {name}) IN
    IF found = <<>> THEN 0 ELSE found[1]

\* tag.find(id=value): the first descendant of r with that id, or 0.
FindId(d, al, r, value) ==
    LET found == SelectSeq([i \in 1..Len(d) |-> i],
                           LAMBDA i : i \in al /\ r \in Ancestors(d, i)
                                         /\ d[i].id = value)
    IN IF found = <<>> THEN 0 ELSE found[1]

\* tag.get_text(...): the strings of r and of its descendants, in order.
GetText(d, al, r) ==
    SelectSeq([i \in 1..Len(d) |-> i],
              LAMBDA i : i \in al /\ (i = r \/ r \in Ancestors(d, i)))

\* Line 34: soup.find('main') or soup.find('article') or
\* soup.find(id='main-content'); a Tag is true.
MainContent(d, al) ==
    LET m == Find(d, al, 0, "main")
        a == Find(d, al, 0, "article")
        c == FindId(d, al, 0, "main-content")
    IN IF m # 0 THEN m ELSE IF a # 0 THEN a ELSE c

\* Faulty variant of Decompose: nothing is removed.
Decompose_Nothing(d, al, r) == al

\* Lines 37-38 and 71-72: every listed element under r is decomposed, and
\* with it its subtree.
Decompose(d, al, r) ==
    LET gone == FindAll(d, al, r, NonContentTags)
        roots == {gone[j] : j \in 1..Len(gone)}
    IN { i \in al : i \notin roots /\ Ancestors(d, i) \cap roots = {} }

Piece(marker, texts) == [marker |-> marker, texts |-> texts]

\* heading.find_next_siblings(), up to the next heading (lines 47-49)
RECURSIVE UntilHeading(_, _)
UntilHeading(d, sibs) ==
    IF sibs = <<>> \/ d[Head(sibs)].tag \in HeadingTags THEN <<>>
    ELSE <<Head(sibs)>> \o UntilHeading(d, Tail(sibs))

\* Lines 42-53: the pieces one heading contributes.
HeadingPieces(d, al, h) ==
    LET sibs == SelectSeq([i \in 1..Len(d) |-> i],
                          LAMBDA i : i \in al /\ i > h /\ d[i].parent = d[h].parent)
        blocks == SelectSeq(UntilHeading(d, sibs), LAMBDA i : d[i].tag \in BlockTags)
    IN (IF GetText(d, al, h) # <<>> THEN <<Piece("HEADING:", GetText(d, al, h))>> ELSE <<>>)
       \o [j \in 1..Len(blocks) |-> Piece("", GetText(d, al, blocks[j]))]

RECURSIVE Flatten(_)
Flatten(seqs) ==
    IF seqs = <<>> THEN <<>> ELSE Head(seqs) \o Flatten(Tail(seqs))

\* The strings of several elements, joined (" | ".join(...)).
JoinTexts(d, al, elems) ==
    Flatten([j \in 1..Len(elems) |-> GetText(d, al, elems[j])])

\* Lines 58-68: the pieces one table contributes.
TablePieces(d, al, t, n) ==
    LET headers == FindAll(d, al, t, {"th"})
        rows == FindAll(d, al, t, {"tr"})
        cells(r) == FindAll(d, al, r, {"td"})
        withCells == SelectSeq(rows, LAMBDA r : cells(r) # <<>>)
    IN <<Piece("TABLE " \o ToString(n) \o ":", <<>>)>>
       \o (IF headers # <<>> THEN <<Piece("", JoinTexts(d, al, headers))>> ELSE <<>>)
       \o [j \in 1..Len(withCells) |-> Piece("", JoinTexts(d, al, cells(withCells[j])))]

\* Lines 77-81: the pieces are joined and the blank lines dropped.
CleanUp(pieces) ==
    SelectSeq(pieces, LAMBDA p : p.marker # "" \/ p.texts # <<>>)

\* Line 28: BeautifulSoup(response.text, 'html.parser') reads one more element
\* of the page.
FetchParse ==
    /\ pc = "fetch_parse"
    /\ Len(doc) < MaxNodes
    /\ \E k \in NodeKinds, p \in OpenElements(doc) :
          doc' = Append(doc, Node(k[1], k[2], p))
    /\ alive' = 1..Len(doc')
    /\ UNCHANGED <<pc, env, log, result_text, models, extracted, exc, exit_code,
                   file0, region, relevant_content>>
    /\ UNCHANGED feedVars

\* Line 34, the page read to its end
FetchSelect ==
    /\ pc = "fetch_parse"
    /\ region' = MainContent(doc, alive)
    /\ pc' = IF region' # 0 THEN "fetch_strip" ELSE "fetch_fallback"
    /\ UNCHANGED <<env, log, result_text, models, extracted, exc, exit_code,
                   file0, doc, alive, relevant_content>>
    /\ UNCHANGED feedVars

\* Lines 37-38
FetchStrip ==
    /\ pc = "fetch_strip"
    /\ alive' = Decompose(doc, alive, region)
    /\ pc' = "fetch_headings"
    /\ UNCHANGED <<env, log, result_text, models, extracted, exc, exit_code,
                   file0, doc, region, relevant_content>>
    /\ UNCHANGED feedVars

\* Lines 41-53
FetchHeadings ==
    /\ pc = "fetch_headings"
    /\ LET hs == FindAll(doc, alive, region, HeadingTags) IN
         relevant_content' =
            Flatten([j \in 1..Len(hs) |-> HeadingPieces(doc, alive, hs[j])])
    /\ pc' = "fetch_tables"
    /\ UNCHANGED <<env, log, result_text, models, extracted, exc, exit_code,
                   file0, doc, alive, region>>
    /\ UNCHANGED feedVars

\* Lines 56-68, then 77-84
FetchTables ==
    /\ pc = "fetch_tables"
    /\ LET ts == FindAll(doc, alive, region, {"table"}) IN
         relevant_content' =
            CleanUp(relevant_content
                    \o Flatten([j \in 1..Len(ts) |-> TablePieces(doc, alive, ts[j], j)]))
    /\ pc' = "fetch_done"
    /\ UNCHANGED <<env, log, result_text, models, extracted, exc, exit_code,
                   file0, doc, alive, region>>
    /\ UNCHANGED feedVars

\* Lines 71-74, then 77-84
FetchFallback ==
    /\ pc = "fetch_fallback"
    /\ alive' = Decompose(doc, alive, 0)
    /\ relevant_content' = CleanUp(<<Piece("", GetText(doc, alive', 0))>>)
    /\ pc' = "fetch_done"
    /\ UNCHANGED <<env, log, result_text, models, extracted, exc, exit_code,
                   file0, doc, region>>
    /\ UNCHANGED feedVars

InitFetch ==
    /\ pc = "fetch_parse"
    /\ env = [api_key |-> Unset, endpoint |-> Unset]
    /\ log = <<>>
    /\ result_text = <<>>
    /\ models = EmptyList
    /\ extracted = NotReturned
    /\ exc = ""
    /\ exit_code = -1
    /\ now = 0
    /\ channel = NoChannel
    /\ idx = 0
    /\ xml_lines = <<>>
    /\ file = NoFile
    /\ file0 = NoFile
    /\ doc = NoDoc
    /\ alive = {}
    /\ region = 0
    /\ relevant_content = <<>>

NextFetch ==
    \/ FetchParse
    \/ FetchSelect
    \/ FetchStrip
    \/ FetchHeadings
    \/ FetchTables
    \/ FetchFallback

SpecFetch == InitFetch /\ [][NextFetch]_vars

(* ------------------------------- claims -------------------------------- *)

\* The items of the written feed, read back from the file.
FeedItems == ReadFeed(file).items

ItemTags == <<"title", "link", "description", "pubDate", "guid">>

TagsOf(item) == [j \in 1..Len(item) |-> item[j].tag]

\* The text of the child of an item with the given tag
Child(item, tag) == (CHOOSE j \in 1..Len(item) : item[j].tag = tag)

ChildText(item, tag) == item[Child(item, tag)].text

IsEmptyList(m) == m.type = "array" /\ Len(m.val) = 0

IsRecordList(m) ==
    m.type = "array" /\ \A i \in 1..Len(m.val) : m.val[i].type = "object"

IsPrefix(a, b) == Len(a) <= Len(b) /\ a = SubSeq(b, 1, Len(a))

\* C1: for every list of N records, each with any subset of the four keys,
\* the file generate_rss_feed writes is a document with one channel holding
\* exactly N items, in the order of the records (item i carries record i's
\* title and link, or their defaults), each with exactly the five children
\* title, link, description, pubDate, guid.
C1_ItemsMatchRecords ==
    pc = "gen_done" =>
        LET d == ReadFeed(file) IN
        /\ d.ok
        /\ d.channels = 1
        /\ Len(d.items) = Len(models.val)
        /\ \A i \in 1..Len(d.items) :
              /\ TagsOf(d.items[i]) = ItemTags
              /\ d.items[i][1].text =
                    (IF "title" \in DOMAIN models.val[i].val
                     THEN models.val[i].val["title"] ELSE T("Unknown Model"))
              /\ d.items[i][2].text =
                    (IF "link" \in DOMAIN models.val[i].val
                     THEN models.val[i].val["link"] ELSE T(BaseLink))

C1_Witness ==
    /\ pc = "gen_done"
    /\ Len(models.val) = 2
    /\ DOMAIN models.val[1].val = {}
    /\ DOMAIN models.val[2].val = Keys
    /\ Len(FeedItems) = 2

\* C2: any two items of a written feed have equal guid texts if and only if
\* they have equal titles, and every guid is 'azure-foundry-model-' followed
\* by the digest of a title.
C2_GuidIffTitle ==
    pc = "gen_done" =>
        /\ \A i, j \in 1..Len(FeedItems) :
              (ChildText(FeedItems[i], "guid") = ChildText(FeedItems[j], "guid"))
                 <=> (ChildText(FeedItems[i], "title") = ChildText(FeedItems[j], "title"))
        /\ \A i \in 1..Len(FeedItems) :
              \E t \in TitleValues :
                 ChildText(FeedItems[i], "guid") = T("azure-foundry-model-" \o Sha256Hex32(t))

\* C3: in the written feed, an absent title reads 'Unknown Model', an absent
\* link the channel's link, an absent description the empty string, an absent
\* pubDate a clock reading of the run in the format of Strftime; a field that
\* is present reads as it was given.
C3_DefaultFilling ==
    pc = "gen_done" =>
        \A i \in 1..Len(FeedItems) :
            LET r == models.val[i].val
                item == FeedItems[i]
            IN /\ ChildText(item, "title") =
                     (IF "title" \in DOMAIN r THEN r["title"] ELSE T("Unknown Model"))
               /\ ChildText(item, "link") =
                     (IF "link" \in DOMAIN r THEN r["link"]
                      ELSE ChildText(ReadFeed(file).chan, "link"))
               /\ ChildText(item, "description") =
                     (IF "description" \in DOMAIN r THEN r["description"] ELSE T(""))
               /\ IF "pubDate" \in DOMAIN r
                  THEN ChildText(item, "pubDate") = r["pubDate"]
                  ELSE \E t \in 0..now : ChildText(item, "pubDate") = T(Strftime(t))

\* The reply, its code fence removed, is no JSON text.
Unparseable(reply) == ~JsonLoads(Strip(FenceStripped(reply))).ok

\* C4: when the completion call returned a reply that, after the removal of
\* the code fence, is not parseable JSON, extract_model_updates_with_llm
\* returns the empty list and raises nothing.
C4_MalformedJsonYieldsEmptyList ==
    /\ (pc = "extract_return" /\ Unparseable(result_text)) => IsEmptyList(models)
    /\ (pc = "raised" /\ exc \in {"TypeError", "JSONDecodeError"})
          => ~Unparseable(result_text)

C4_Witness ==
    /\ pc = "extract_return"
    /\ result_text = <<FenceJson, Prose, Fence>>
    /\ IsEmptyList(models)

\* The extractor returned zero records (both network calls succeeded).
ZeroRecords == IsEmptyList(extracted)

PlaceholderFeed ==
    /\ ReadFeed(file).ok
    /\ Len(FeedItems) = 1
    /\ ChildText(FeedItems[1], "title") = T("No updates available")

PlaceholderSubstituted ==
    /\ pc = "gen_channel" => ~IsEmptyList(models)
    /\ (ZeroRecords /\ pc # "extract_return") =>
          /\ models.type = "array"
          /\ Len(models.val) = 1
          /\ models.val[1].val["title"] = T("No updates available")

\* C5 as stated: in every run where both network calls succeed and the
\* extractor yields zero records, main substitutes one placeholder record
\* before calling generate_rss_feed (never called with an empty list), the
\* written feed has exactly one item, titled 'No updates available', and the
\* process ends with exit code 0.
C5_PlaceholderAndExit0 ==
    /\ PlaceholderSubstituted
    /\ (pc = "exited" /\ ZeroRecords) => (exit_code = 0 /\ PlaceholderFeed)

\* C5 amended: as C5, when opening and writing the output file succeed; when
\* either fails (OSError), the process ends with exit code 1.
C5_PlaceholderUnlessWriteFails ==
    /\ PlaceholderSubstituted
    /\ (pc = "exited" /\ ZeroRecords) =>
          IF exc = "" THEN exit_code = 0 /\ PlaceholderFeed
          ELSE exc = "OSError" /\ exit_code = 1

C5_Witness ==
    /\ pc = "exited"
    /\ ZeroRecords
    /\ exit_code = 0
    /\ PlaceholderFeed

\* C6: when the API key or the endpoint is missing or empty, the process ends
\* with exit code 1 and has issued no fetch, no completion request and no
\* write of the feed file.
C6_ConfigFailFast ==
    (Not(env.api_key) \/ Not(env.endpoint)) =>
        /\ log = <<>>
        /\ file = file0
        /\ pc \in {"main", "exited"}
        /\ pc = "exited" => exit_code = 1

C6_Witness ==
    /\ pc = "exited"
    /\ env.api_key = SetTo("value")
    /\ env.endpoint = SetTo("")
    /\ exit_code = 1

\* C7: the fetch, the completion request, the open and the write of the feed
\* file happen at most once each and in this order, the later ones only after
\* the earlier succeeded and the extractor returned; a failed fetch or a
\* failed completion request is not repeated, leaves the feed file as it was
\* and ends the process with exit code 1.
C7_SequentialNoRetry ==
    /\ IsPrefix(log, <<"fetch", "llm", "open", "write">>)
    /\ exc = "RequestException" => (log = <<"fetch">> /\ file = file0)
    /\ exc = "APIError" => (log = <<"fetch", "llm">> /\ file = file0)
    /\ Len(log) >= 3 => extracted.type # "none"
    /\ (pc = "exited" /\ exc \in {"RequestException", "APIError"}) => exit_code = 1

C7_Witness ==
    /\ pc = "exited"
    /\ exc = "APIError"
    /\ log = <<"fetch", "llm">>
    /\ exit_code = 1

\* C8: once a run of generate_rss_feed has ended, normally or by a failure,
\* the output file holds its complete previous content or the complete new
\* document.
C8_NoPartialFeed ==
    pc \in {"gen_done", "raised"} =>
        \/ file = file0
        \/ (xml_lines # <<>> /\ file = FileOf(xml_lines) /\ ReadFeed(file).ok)

\* The region the claim names: the first main element, else the first
\* article element, else the first element with id 'main-content', else the
\* whole document (0).
First(S) == IF S = {} THEN 0 ELSE CHOOSE i \in S : \A j \in S : i <= j

ClaimedRegion ==
    LET mains == {i \in 1..Len(doc) : doc[i].tag = "main"}
        articles == {i \in 1..Len(doc) : doc[i].tag = "article"}
        ids == {i \in 1..Len(doc) : doc[i].id = "main-content"}
    IN IF mains # {} THEN First(mains)
       ELSE IF articles # {} THEN First(articles)
       ELSE First(ids)

\* The strings inside a non-content element of the region r
NonContentTexts(r) ==
    { i \in 1..Len(doc) :
        \E a \in (Ancestors(doc, i) \cup {i}) \ {0} :
            doc[a].tag \in NonContentTags /\ r \in Ancestors(doc, a) }

ReturnedTexts ==
    UNION { { relevant_content[j].texts[k] : k \in 1..Len(relevant_content[j].texts) } :
            j \in 1..Len(relevant_content) }

\* C9: the text fetch_page_content returns holds no string that lies inside a
\* script, style, nav, header, footer or aside element of the selected
\* region; with no region found, it is all the other strings of the document.
C9_NoNonContentText ==
    pc = "fetch_done" =>
        /\ ReturnedTexts \cap NonContentTexts(ClaimedRegion) = {}
        /\ ClaimedRegion = 0 => ReturnedTexts = (1..Len(doc)) \ NonContentTexts(0)

C9_Witness ==
    /\ pc = "fetch_done"
    /\ ClaimedRegion # 0
    /\ \E i \in NonContentTexts(ClaimedRegion) :
          /\ doc[i].parent # 0
          /\ doc[doc[i].parent].tag \in HeadingTags
          /\ doc[i].parent \in ReturnedTexts

\* C10: what extract_model_updates_with_llm returns is a list of records,
\* whatever the reply; a reply that is JSON but no array of objects raises
\* nothing, in the extractor or in the feed builder.
C10_ReplyValidated ==
    /\ pc = "extract_return" => IsRecordList(models)
    /\ exc \notin {"TypeError", "AttributeError"}

====
